---- MODULE Spec2Model ----
(***************************************************************************)
(* The offline-first reactive collection engine of solid-remotestorage:    *)
(* createCollection (one store per component) and createSharedCollection   *)
(* (singleton with init/dispose), over one partition of a createModule     *)
(* adapter.  Asynchronous calls are split at their awaits: every adapter   *)
(* call in flight is a task of `tasks`, and the steps of different tasks   *)
(* interleave freely.                                                      *)
(***************************************************************************)
EXTENDS Integers, Sequences, FiniteSets, TLC

\* ---------------------------------------------------------------- bounds
\* The environment issues at most `budget` operations, notifications and clock
\* ticks in a run; nothing else is bounded.  MaxCalls is the budget of the runs
\* that exercise add, update and remove, MaxEvents the budget of the runs that
\* exercise the lifecycle and the change notifications.
MaxCalls == 3
MaxEvents == 4

\* updatedAt is optional in BaseItem: NoTime stands for its absence.
NoTime == 0

Rec(id, createdAt, updatedAt, completed) ==
    [id |-> id, createdAt |-> createdAt, updatedAt |-> updatedAt, completed |-> completed]

\* The records a partition may already hold when the collection is created,
\* written by an earlier session.
SeedRecords == <<Rec(1, 1, NoTime, FALSE), Rec(2, 2, NoTime, FALSE)>>

\* Identifiers: 0 is an id no record ever has, then the ids of the seed
\* records, then the ones generateId() hands out.
Ids == 0..(Len(SeedRecords) + MaxCalls + MaxEvents)
Origins == {"window", "local", "remote", "conflict"}
SortKinds == {"createdAtDesc", "completedAsc"}
FilterKinds == {"none", "active"}

VARIABLES
    kind,                 \* "component" (createCollection) or "shared" (createSharedCollection)
    sortKind,             \* options.sortFn
    filterKind,           \* options.filterFn
    autoLoad,             \* options.autoLoad (component)
    partition,            \* the partition's local replica: id -> <<record>> or <<>>
    now,                  \* Date.now()
    nextId,               \* generateId(): the next fresh identifier
    items,                \* the store
    loading,              \* isLoading()
    error,                \* error()
    initialized,          \* isInitialized() (shared)
    hasInit,              \* hasInit (shared)
    dispose,              \* the root's disposer, or "null" once called (shared)
    initialLoadComplete,  \* initialLoadComplete (component)
    mountState,           \* component lifecycle: "created", "mounted", "cleaned"
    changeHandler,        \* the changeHandler variable: "null" or "set" (component)
    subs,                 \* handlers registered with privateClient.on('change', ...)
    tasks,                \* asynchronous calls in flight, in the order they were started
    calls,                \* operations, notifications and ticks the environment has issued
    budget,               \* how many of them a run may hold
    last                  \* the operation that took the last step, and what it observed

vars == <<kind, sortKind, filterKind, autoLoad, partition, now, nextId, items, loading,
          error, initialized, hasInit, dispose, initialLoadComplete, mountState,
          changeHandler, subs, tasks, calls, budget, last>>

config == <<kind, sortKind, filterKind, autoLoad, budget>>
sharedVars == <<initialized, hasInit, dispose>>
componentVars == <<initialLoadComplete, mountState, changeHandler>>

\* ---------------------------------------------------------------- records
\* items.findIndex(item => item.id === id): 0 stands for -1, indices are 1-based.
FindIndex(s, id) ==
    IF \E i \in 1..Len(s) : s[i].id = id
    THEN CHOOSE i \in 1..Len(s) : s[i].id = id /\ \A j \in 1..(i - 1) : s[j].id # id
    ELSE 0

\* items.find(item => item.id === id), as <<record>> or <<>> for undefined.
find(s, id) == IF FindIndex(s, id) = 0 THEN <<>> ELSE <<s[FindIndex(s, id)]>>

\* sortFn(a, b): the default comparator, or one that reads a field update may change.
BoolNum(b) == IF b THEN 1 ELSE 0

sortFn(k, a, b) ==
    IF k = "createdAtDesc" THEN b.createdAt - a.createdAt
    ELSE BoolNum(a.completed) - BoolNum(b.completed)

filterFn(k, r) == IF k = "active" THEN ~r.completed ELSE TRUE

\* Array.prototype.sort is stable: x goes after every element that does not
\* compare greater than it.
RECURSIVE SortInsert(_, _, _)
SortInsert(k, s, x) ==
    IF s = <<>> THEN <<x>>
    ELSE IF sortFn(k, s[Len(s)], x) <= 0 THEN Append(s, x)
    ELSE Append(SortInsert(k, SubSeq(s, 1, Len(s) - 1), x), s[Len(s)])

RECURSIVE SortWith(_, _)
SortWith(k, s) ==
    IF s = <<>> THEN <<>>
    ELSE SortInsert(k, SortWith(k, SubSeq(s, 1, Len(s) - 1)), s[Len(s)])

Sort(s) == SortWith(sortKind, s)

IsSorted(s) == \A i \in 1..Len(s) : \A j \in (i + 1)..Len(s) : sortFn(sortKind, s[i], s[j]) <= 0

RECURSIVE Filter(_)
Filter(s) ==
    IF s = <<>> THEN <<>>
    ELSE IF filterFn(filterKind, s[1]) THEN <<s[1]>> \o Filter(Tail(s))
    ELSE Filter(Tail(s))

SpliceOut(s, i) == SubSeq(s, 1, i - 1) \o SubSeq(s, i + 1, Len(s))

\* items.splice(start, 0, x) with a 0-based start, clamped to the length.
SpliceIn(s, start, x) ==
    LET at == IF start > Len(s) THEN Len(s) ELSE start
    IN SubSeq(s, 1, at) \o <<x>> \o SubSeq(s, at + 1, Len(s))

ReplaceAt(s, i, x) == [s EXCEPT ![i] = x]

\* ---------------------------------------------------------------- adapter
\* What the partition holds when the collection is created: nothing, or two
\* records of an earlier session.
EmptyPartition == [i \in Ids |-> <<>>]

SeedPartition ==
    [i \in Ids |-> IF i \in 1..Len(SeedRecords) THEN <<SeedRecords[i]>> ELSE <<>>]

Present == {i \in Ids : partition[i] # <<>>}

\* The listings getAll can return: the records of the partition in the key
\* order of the listing object, which the persistence service decides.
Listings ==
    {s \in [1..Cardinality(Present) -> Present] :
        \A i, j \in 1..Cardinality(Present) : i # j => s[i] # s[j]}

\* getAllAsArray: Object.values(items).sort((a, b) => b.createdAt - a.createdAt)
getAllAsArray(listing) ==
    SortWith("createdAtDesc", [i \in 1..Len(listing) |-> partition[listing[i]][1]])

\* ---------------------------------------------------------------- tasks
ReloadTask == [op |-> "reload", pc |-> "getAll", id |-> 0, partial |-> FALSE,
               original |-> <<>>, originalIndex |-> 0, data |-> <<>>,
               before |-> <<>>, clean |-> FALSE, cause |-> ""]

RECURSIVE Repeat(_, _)
Repeat(x, n) == IF n = 0 THEN <<>> ELSE <<x>> \o Repeat(x, n - 1)

\* Another operation wrote the store: the calls in flight no longer see the
\* items they started from.
Touch(ts) == [i \in 1..Len(ts) |-> [ts[i] EXCEPT !.clean = FALSE]]

\* The operation that has just completed, and how its promise settled.
Quiet == [op |-> "none", arg |-> "", id |-> 0, reloads |-> 0, before |-> <<>>, clean |-> FALSE,
          threw |-> FALSE, result |-> <<>>]

\* The call on `id` has settled: rejected (threw) or resolved.
Settled(op, t, threw) == [Quiet EXCEPT !.op = op, !.arg = t.cause, !.id = t.id,
                                       !.before = t.before, !.clean = t.clean,
                                       !.threw = threw]

Did(op, arg, n) == [Quiet EXCEPT !.op = op, !.arg = arg, !.reloads = n]

\* How many reloads started before the reload at i are in flight, when no
\* reload in flight was started after it.
Overtaken(ts, i) ==
    IF \E j \in (i + 1)..Len(ts) : ts[j].op = "reload" THEN 0
    ELSE Cardinality({j \in 1..(i - 1) : ts[j].op = "reload"})

RemoveAt(ts, i) == SpliceOut(ts, i)

\* The tasks left in flight after a step that set the store to `new`.
After(ts, new) == IF new = items THEN ts ELSE Touch(ts)

\* One more call from the environment, while the run's budget lasts.
Call == calls < budget /\ calls' = calls + 1

\* ---------------------------------------------------------------- Init
Init ==
    /\ kind \in {"component", "shared"}
    /\ sortKind \in SortKinds
    /\ filterKind \in FilterKinds
    /\ autoLoad \in (IF kind = "component" THEN BOOLEAN ELSE {TRUE})
    /\ partition \in {EmptyPartition, SeedPartition}
    /\ now = Len(SeedRecords) + 1
    /\ nextId = Len(SeedRecords) + 1
    /\ items = <<>>
    /\ loading = TRUE
    /\ error = "null"
    /\ initialized = FALSE
    /\ hasInit = FALSE
    /\ dispose = "disposeFn"
    /\ initialLoadComplete = FALSE
    /\ mountState = "created"
    /\ changeHandler = "null"
    /\ subs = 0
    /\ tasks = <<>>
    /\ calls = 0
    /\ budget \in {MaxCalls, MaxEvents}
    /\ last = Quiet

\* ---------------------------------------------------------------- reload
\* A reload that shows the loading state again while it runs.
ReloadShowsLoading ==
    /\ Call
    /\ error' = "null"
    /\ loading' = TRUE
    /\ tasks' = Append(tasks, ReloadTask)
    /\ last' = Quiet
    /\ UNCHANGED <<config, partition, now, nextId, items, sharedVars, componentVars, subs>>

\* reload() up to its await: setError(null), then getAllAsArray() is in flight.
Reload ==
    /\ Call
    /\ error' = "null"
    /\ tasks' = Append(tasks, ReloadTask)
    /\ last' = Quiet
    /\ UNCHANGED <<config, partition, now, nextId, items, loading, sharedVars,
                   componentVars, subs>>

\* privateClient.getAll reads the local replica.
GetAllRead(i) ==
    /\ tasks[i].op = "reload" /\ tasks[i].pc = "getAll"
    /\ \E listing \in Listings :
          tasks' = [tasks EXCEPT ![i].data = getAllAsArray(listing), ![i].pc = "resolve"]
    /\ last' = Quiet
    /\ UNCHANGED <<calls, config, partition, now, nextId, items, loading, error, sharedVars,
                   componentVars, subs>>

\* A reload that sorts and leaves the filter out.
ProcessedUnfiltered(allItems) == Sort(allItems)

\* processed = allItems.filter(filterFn).sort(sortFn)
Processed(allItems) == Sort(Filter(allItems))

\* reload()'s finally block.
ReloadFinally ==
    /\ loading' = FALSE
    /\ IF kind = "component"
       THEN initialLoadComplete' = TRUE /\ UNCHANGED initialized
       ELSE initialized' = TRUE /\ UNCHANGED initialLoadComplete
    /\ UNCHANGED <<hasInit, dispose, mountState, changeHandler>>

\* getAllAsArray() resolved: setItems(reconcile(processed)).
ReloadResolve(i) ==
    /\ tasks[i].op = "reload" /\ tasks[i].pc = "resolve"
    /\ items' = Processed(tasks[i].data)
    /\ tasks' = After(RemoveAt(tasks, i), items')
    /\ ReloadFinally
    /\ last' = [Settled("reloadDone", tasks[i], FALSE) EXCEPT !.reloads = Overtaken(tasks, i)]
    /\ UNCHANGED <<calls, config, partition, now, nextId, error, subs>>

\* A reload whose failure path leaves the finally block out.
ReloadFailWithoutFinally(i) ==
    /\ tasks[i].op = "reload" /\ tasks[i].pc = "getAll"
    /\ error' = "getAll"
    /\ tasks' = RemoveAt(tasks, i)
    /\ last' = Settled("reloadFail", tasks[i], FALSE)
    /\ UNCHANGED <<calls, config, partition, now, nextId, items, loading, sharedVars,
                   componentVars, subs>>

\* A reload whose catch block empties the store.
ReloadFailClearsItems(i) ==
    /\ tasks[i].op = "reload" /\ tasks[i].pc = "getAll"
    /\ items' = <<>>
    /\ error' = "getAll"
    /\ tasks' = After(RemoveAt(tasks, i), items')
    /\ ReloadFinally
    /\ last' = Settled("reloadFail", tasks[i], FALSE)
    /\ UNCHANGED <<calls, config, partition, now, nextId, subs>>

\* getAllAsArray() rejected: the catch block sets error, items are kept.
ReloadFail(i) ==
    /\ tasks[i].op = "reload" /\ tasks[i].pc = "getAll"
    /\ error' = "getAll"
    /\ tasks' = RemoveAt(tasks, i)
    /\ ReloadFinally
    /\ last' = Settled("reloadFail", tasks[i], FALSE)
    /\ UNCHANGED <<calls, config, partition, now, nextId, items, subs>>

\* ---------------------------------------------------------------- add
\* A create whose id is the timestamp alone.
AddTimestampId(completed) ==
    /\ Call
    /\ tasks' = Append(tasks, [ReloadTask EXCEPT !.op = "add", !.pc = "store", !.id = now,
                                   !.data = <<Rec(now, now, NoTime, completed)>>])
    /\ nextId' = nextId + 1
    /\ last' = Quiet
    /\ UNCHANGED <<config, partition, now, items, loading, error, sharedVars,
                   componentVars, subs>>

\* An add that puts the item into the store before create has resolved.
AddOptimistic(completed) ==
    /\ Call
    /\ items' = Sort(<<Rec(nextId, now, NoTime, completed)>> \o items)
    /\ tasks' = Append(After(tasks, items'),
                       [ReloadTask EXCEPT !.op = "add", !.pc = "store", !.id = nextId,
                                          !.data = <<Rec(nextId, now, NoTime, completed)>>])
    /\ nextId' = nextId + 1
    /\ last' = Quiet
    /\ UNCHANGED <<config, partition, now, loading, error, sharedVars, componentVars, subs>>

\* add(data) up to its await: module.create builds the item and calls store.
Add(completed) ==
    /\ Call
    /\ tasks' = Append(tasks, [ReloadTask EXCEPT !.op = "add", !.pc = "store", !.id = nextId,
                                   !.data = <<Rec(nextId, now, NoTime, completed)>>])
    /\ nextId' = nextId + 1
    /\ last' = Quiet
    /\ UNCHANGED <<config, partition, now, items, loading, error, sharedVars,
                   componentVars, subs>>

\* An insertion that leaves the sort out: items.unshift(item) only.
InsertFirst(s, item) == <<item>> \o s

\* items.unshift(item); items.sort(sortFn)
InsertSorted(s, item) == Sort(<<item>> \o s)

\* privateClient.storeObject wrote the record to the local replica.
AddStore(i) ==
    /\ tasks[i].op = "add" /\ tasks[i].pc = "store"
    /\ partition' = [partition EXCEPT ![tasks[i].id] = tasks[i].data]
    /\ tasks' = [tasks EXCEPT ![i].pc = "resolve"]
    /\ last' = Quiet
    /\ UNCHANGED <<calls, config, now, nextId, items, loading, error, sharedVars, componentVars,
                   subs>>

\* create resolved with the item: it goes into the store, add returns it.
AddResolve(i) ==
    /\ tasks[i].op = "add" /\ tasks[i].pc = "resolve"
    /\ items' = InsertSorted(items, tasks[i].data[1])
    /\ tasks' = After(RemoveAt(tasks, i), items')
    /\ last' = Settled("addDone", tasks[i], FALSE)
    /\ UNCHANGED <<calls, config, partition, now, nextId, loading, error, sharedVars,
                   componentVars, subs>>

\* create rejected: setError(err); throw err.
AddFail(i) ==
    /\ tasks[i].op = "add" /\ tasks[i].pc = "store"
    /\ error' = "create"
    /\ tasks' = RemoveAt(tasks, i)
    /\ last' = Settled("addFail", tasks[i], TRUE)
    /\ UNCHANGED <<calls, config, partition, now, nextId, items, loading, sharedVars,
                   componentVars, subs>>

\* ---------------------------------------------------------------- update
\* The ids a caller can pass: the ones of the records in the partition or in
\* items, and one that no record has.
Callable == {0} \cup Present \cup {items[i].id : i \in 1..Len(items)}

\* An optimistic write that drops updatedAt instead of setting it.
OptimisticUpdateDropsStamp(s, id, completed) ==
    IF FindIndex(s, id) = 0 THEN s
    ELSE [s EXCEPT ![FindIndex(s, id)].completed = completed,
                   ![FindIndex(s, id)].updatedAt = NoTime]

\* An optimistic write that stamps createdAt as well as updatedAt.
OptimisticUpdateRestamps(s, id, completed) ==
    IF FindIndex(s, id) = 0 THEN s
    ELSE [s EXCEPT ![FindIndex(s, id)].completed = completed,
                   ![FindIndex(s, id)].updatedAt = now,
                   ![FindIndex(s, id)].createdAt = now]

\* Object.assign(items[index], updates, { updatedAt: Date.now() }) where id is found.
OptimisticUpdate(s, id, completed) ==
    IF FindIndex(s, id) = 0 THEN s
    ELSE [s EXCEPT ![FindIndex(s, id)].completed = completed,
                   ![FindIndex(s, id)].updatedAt = now]

\* An update that writes the store only when the adapter has answered.
UpdatePessimistic(id, completed) ==
    /\ Call
    /\ tasks' = Append(tasks,
                       [ReloadTask EXCEPT !.op = "update", !.pc = "get", !.id = id,
                                          !.partial = completed, !.original = find(items, id),
                                          !.originalIndex = FindIndex(items, id),
                                          !.before = items, !.clean = TRUE])
    /\ last' = Quiet
    /\ UNCHANGED <<config, partition, now, nextId, items, loading, error, sharedVars,
                   componentVars, subs>>

\* An update that sorts the store again after the optimistic write.
UpdateResorts(id, completed) ==
    /\ Call
    /\ items' = Sort(OptimisticUpdate(items, id, completed))
    /\ tasks' = Append(After(tasks, items'),
                       [ReloadTask EXCEPT !.op = "update", !.pc = "get", !.id = id,
                                          !.partial = completed, !.original = find(items, id),
                                          !.originalIndex = FindIndex(items, id),
                                          !.before = items, !.clean = TRUE])
    /\ last' = Quiet
    /\ UNCHANGED <<config, partition, now, nextId, loading, error, sharedVars,
                   componentVars, subs>>

\* update(id, updates) up to its await: the snapshot, the optimistic write, and
\* module.update, whose get(id) is in flight.
Update(id, completed) ==
    /\ Call
    /\ items' = OptimisticUpdate(items, id, completed)
    /\ tasks' = Append(After(tasks, items'),
                       [ReloadTask EXCEPT !.op = "update", !.pc = "get", !.id = id,
                                          !.partial = completed, !.original = find(items, id),
                                          !.originalIndex = FindIndex(items, id),
                                          !.before = items, !.clean = TRUE])
    /\ last' = Quiet
    /\ UNCHANGED <<config, partition, now, nextId, loading, error, sharedVars,
                   componentVars, subs>>

\* A module.update that rejects when get(id) finds no record.
UpdateGetRejectsAbsent(i) ==
    /\ tasks[i].op = "update" /\ tasks[i].pc = "get"
    /\ IF partition[tasks[i].id] = <<>>
       THEN /\ tasks' = RemoveAt(tasks, i)
            /\ error' = "update"
            /\ last' = Settled("updateFail", tasks[i], TRUE)
       ELSE /\ tasks' = [tasks EXCEPT ![i].pc = "store",
                                      ![i].data = <<[partition[tasks[i].id][1] EXCEPT
                                                      !.completed = tasks[i].partial,
                                                      !.updatedAt = now]>>]
            /\ last' = Quiet
            /\ UNCHANGED error
    /\ UNCHANGED <<calls, config, partition, now, nextId, items, loading, sharedVars,
                   componentVars, subs>>

\* A module.update that creates the record when get(id) finds none.
UpdateGetUpserts(i) ==
    /\ tasks[i].op = "update" /\ tasks[i].pc = "get"
    /\ tasks' = [tasks EXCEPT ![i].pc = "store",
                              ![i].data =
                                  IF partition[tasks[i].id] = <<>>
                                  THEN <<Rec(tasks[i].id, now, now, tasks[i].partial)>>
                                  ELSE <<[partition[tasks[i].id][1] EXCEPT
                                             !.completed = tasks[i].partial,
                                             !.updatedAt = now]>>]
    /\ last' = Quiet
    /\ UNCHANGED <<calls, config, partition, now, nextId, items, loading, error, sharedVars,
                   componentVars, subs>>

\* module.update after get(id): undefined for an absent record (the engine's
\* await resolves), else the merged record goes to store.
UpdateGet(i) ==
    /\ tasks[i].op = "update" /\ tasks[i].pc = "get"
    /\ IF partition[tasks[i].id] = <<>>
       THEN /\ tasks' = RemoveAt(tasks, i)
            /\ last' = Settled("updateDone", tasks[i], FALSE)
       ELSE /\ tasks' = [tasks EXCEPT ![i].pc = "store",
                                      ![i].data = <<[partition[tasks[i].id][1] EXCEPT
                                                      !.completed = tasks[i].partial,
                                                      !.updatedAt = now]>>]
            /\ last' = Quiet
    /\ UNCHANGED <<calls, config, partition, now, nextId, items, loading, error, sharedVars,
                   componentVars, subs>>

\* store(updated) resolved.
UpdateStore(i) ==
    /\ tasks[i].op = "update" /\ tasks[i].pc = "store"
    /\ partition' = [partition EXCEPT ![tasks[i].id] = tasks[i].data]
    /\ tasks' = RemoveAt(tasks, i)
    /\ last' = Settled("updateDone", tasks[i], FALSE)
    /\ UNCHANGED <<calls, config, now, nextId, items, loading, error, sharedVars, componentVars,
                   subs>>

\* A rollback that puts back the fields of the partial and keeps the optimistic
\* updatedAt.
RollbackUpdateFieldsOnly(s, t) ==
    IF t.original = <<>> \/ FindIndex(s, t.id) = 0 THEN s
    ELSE [s EXCEPT ![FindIndex(s, t.id)].completed = t.original[1].completed]

\* A rollback that puts the whole list back as it was before the call.
RollbackUpdateWholeList(s, t) == IF t.original = <<>> THEN s ELSE t.before

\* A rollback that stands back when a later update of the id is in flight.
RollbackUpdateUnlessSuperseded(s, t) ==
    IF t.original = <<>> \/ FindIndex(s, t.id) = 0 THEN s
    ELSE IF \E j \in 1..Len(tasks) :
               /\ tasks[j].op = "update" /\ tasks[j].id = t.id
               /\ tasks[j].original # t.original
         THEN s
         ELSE ReplaceAt(s, FindIndex(s, t.id), t.original[1])

\* The catch block of update: the snapshot goes back where the id is now.
RollbackUpdate(s, t) ==
    IF t.original = <<>> \/ FindIndex(s, t.id) = 0 THEN s
    ELSE ReplaceAt(s, FindIndex(s, t.id), t.original[1])

\* module.update rejected, at get or at store.
UpdateFail(i) ==
    /\ tasks[i].op = "update"
    /\ items' = RollbackUpdate(items, tasks[i])
    /\ error' = "update"
    /\ tasks' = After(RemoveAt(tasks, i), items')
    /\ last' = Settled("updateFail", tasks[i], TRUE)
    /\ UNCHANGED <<calls, config, partition, now, nextId, loading, sharedVars, componentVars,
                   subs>>

\* ---------------------------------------------------------------- remove
\* items.splice(index, 1) where id is found.
OptimisticRemove(s, id) == IF FindIndex(s, id) = 0 THEN s ELSE SpliceOut(s, FindIndex(s, id))

\* remove(id) up to its await.
Remove(id) ==
    /\ Call
    /\ items' = OptimisticRemove(items, id)
    /\ tasks' = Append(After(tasks, items'),
                       [ReloadTask EXCEPT !.op = "remove", !.pc = "remove", !.id = id,
                                          !.original = find(items, id),
                                          !.originalIndex = FindIndex(items, id),
                                          !.before = items, !.clean = TRUE])
    /\ last' = Quiet
    /\ UNCHANGED <<config, partition, now, nextId, loading, error, sharedVars,
                   componentVars, subs>>

\* privateClient.remove(id) resolved: removing an absent id is no error.
RemoveResolve(i) ==
    /\ tasks[i].op = "remove"
    /\ partition' = [partition EXCEPT ![tasks[i].id] = <<>>]
    /\ tasks' = RemoveAt(tasks, i)
    /\ last' = Settled("removeDone", tasks[i], FALSE)
    /\ UNCHANGED <<calls, config, now, nextId, items, loading, error, sharedVars, componentVars,
                   subs>>

\* The catch block of remove: items.splice(originalIndex, 0, original); items.sort(sortFn)
RollbackRemove(s, t) ==
    IF t.original = <<>> THEN s
    ELSE Sort(SpliceIn(s, t.originalIndex - 1, t.original[1]))

\* A remove whose catch block reports the failure only where it rolls back.
RemoveFailSilentWithoutSnapshot(i) ==
    /\ tasks[i].op = "remove"
    /\ items' = RollbackRemove(items, tasks[i])
    /\ error' = IF tasks[i].original = <<>> THEN error ELSE "remove"
    /\ tasks' = After(RemoveAt(tasks, i), items')
    /\ last' = Settled("removeFail", tasks[i], tasks[i].original # <<>>)
    /\ UNCHANGED <<calls, config, partition, now, nextId, loading, sharedVars, componentVars,
                   subs>>

\* module.remove rejected.
RemoveFail(i) ==
    /\ tasks[i].op = "remove"
    /\ items' = RollbackRemove(items, tasks[i])
    /\ error' = "remove"
    /\ tasks' = After(RemoveAt(tasks, i), items')
    /\ last' = Settled("removeFail", tasks[i], TRUE)
    /\ UNCHANGED <<calls, config, partition, now, nextId, loading, sharedVars, componentVars,
                   subs>>

\* ---------------------------------------------------------------- component lifecycle
\* A clear that also removes the records from the partition.
ClearDeletesRecords ==
    /\ Call
    /\ kind = "component"
    /\ items' = <<>>
    /\ partition' = EmptyPartition
    /\ error' = "null"
    /\ initialLoadComplete' = FALSE
    /\ tasks' = After(tasks, items')
    /\ last' = [Did("clear", "", 0) EXCEPT !.before = items]
    /\ UNCHANGED <<config, now, nextId, loading, sharedVars, mountState, changeHandler, subs>>

\* clear(): setItems(reconcile([])); setError(null); initialLoadComplete = false
Clear ==
    /\ Call
    /\ kind = "component"
    /\ items' = <<>>
    /\ error' = "null"
    /\ initialLoadComplete' = FALSE
    /\ tasks' = After(tasks, items')
    /\ last' = [Did("clear", "", 0) EXCEPT !.before = items]
    /\ UNCHANGED <<config, partition, now, nextId, loading, sharedVars, mountState,
                   changeHandler, subs>>

\* An onMount that ends loading whether or not it loads.
MountEndsLoading ==
    /\ kind = "component" /\ mountState = "created"
    /\ IF autoLoad
       THEN error' = "null" /\ tasks' = Append(tasks, ReloadTask)
       ELSE UNCHANGED <<error, tasks>>
    /\ loading' = FALSE
    /\ changeHandler' = "set"
    /\ subs' = subs + 1
    /\ mountState' = "mounted"
    /\ last' = Did("mount", "", IF autoLoad THEN 1 ELSE 0)
    /\ UNCHANGED <<calls, config, partition, now, nextId, items, sharedVars,
                   initialLoadComplete>>

\* onMount: the initial load, then module.onChange(changeHandler).
Mount ==
    /\ kind = "component" /\ mountState = "created"
    /\ IF autoLoad
       THEN error' = "null" /\ tasks' = Append(tasks, ReloadTask) /\ UNCHANGED loading
       ELSE loading' = FALSE /\ UNCHANGED <<error, tasks>>
    /\ changeHandler' = "set"
    /\ subs' = subs + 1
    /\ mountState' = "mounted"
    /\ last' = Did("mount", "", IF autoLoad THEN 1 ELSE 0)
    /\ UNCHANGED <<calls, config, partition, now, nextId, items, sharedVars, initialLoadComplete>>

\* onCleanup: changeHandler = null; the registered function stays registered.
Cleanup ==
    /\ kind = "component" /\ mountState = "mounted"
    /\ changeHandler' = "null"
    /\ mountState' = "cleaned"
    /\ last' = Did("cleanup", "", 0)
    /\ UNCHANGED <<calls, config, partition, now, nextId, items, loading, error, sharedVars,
                   initialLoadComplete, subs, tasks>>

\* ---------------------------------------------------------------- shared lifecycle
\* An init() without the hasInit guard.
InitCollectionUnguarded ==
    /\ Call
    /\ kind = "shared"
    /\ hasInit' = TRUE
    /\ error' = "null"
    /\ tasks' = Append(tasks, ReloadTask)
    /\ subs' = subs + 1
    /\ last' = Did("init", IF hasInit THEN "noop" ELSE "first", 1)
    /\ UNCHANGED <<config, partition, now, nextId, items, loading, initialized, dispose,
                   componentVars>>

\* init(): a no-op when hasInit, else reload() and module.onChange(...).
InitCollection ==
    /\ Call
    /\ kind = "shared"
    /\ IF hasInit
       THEN /\ last' = Did("init", "noop", 0)
            /\ UNCHANGED <<hasInit, error, tasks, subs>>
       ELSE /\ hasInit' = TRUE
            /\ error' = "null"
            /\ tasks' = Append(tasks, ReloadTask)
            /\ subs' = subs + 1
            /\ last' = Did("init", "first", 1)
    /\ UNCHANGED <<config, partition, now, nextId, items, loading, initialized, dispose,
                   componentVars>>

\* A dispose() that also resets the initialized signal.
DisposeCollectionResetsSignal ==
    /\ Call
    /\ kind = "shared"
    /\ dispose' = "null"
    /\ hasInit' = FALSE
    /\ initialized' = FALSE
    /\ last' = Did("dispose", "", 0)
    /\ UNCHANGED <<config, partition, now, nextId, items, loading, error,
                   componentVars, subs, tasks>>

\* dispose(): the root's disposer is called once; hasInit = false.
DisposeCollection ==
    /\ Call
    /\ kind = "shared"
    /\ dispose' = "null"
    /\ hasInit' = FALSE
    /\ last' = Did("dispose", "", 0)
    /\ UNCHANGED <<config, partition, now, nextId, items, loading, error, initialized,
                   componentVars, subs, tasks>>

\* ---------------------------------------------------------------- change notifications
\* A handler that does not look at the origin.
HandlerReloadsAnyOrigin(origin) == kind = "component" => initialLoadComplete

\* A handler that reloads on remote changes only.
HandlerReloadsRemoteOnly(origin) ==
    (kind = "component" => initialLoadComplete) /\ origin = "remote"

\* A handler without the initialLoadComplete gate.
HandlerReloadsUngated(origin) == origin = "remote" \/ origin = "local"

\* The test of a registered change handler: does this event make it call reload()?
HandlerReloads(origin) ==
    IF kind = "component"
    THEN initialLoadComplete /\ (origin = "remote" \/ origin = "local")
    ELSE origin = "remote" \/ origin = "local"

\* One Change Notification of the partition: every registered handler runs.
Notify(origin) ==
    LET n == IF HandlerReloads(origin) THEN subs ELSE 0
    IN /\ Call
       /\ error' = IF n > 0 THEN "null" ELSE error
       /\ tasks' = tasks \o Repeat(ReloadTask, n)
       /\ last' = Did("notify", origin, n)
       /\ UNCHANGED <<config, partition, now, nextId, items, loading, sharedVars,
                      componentVars, subs>>

\* ---------------------------------------------------------------- useCollection
\* A 'disconnected' handler that leaves the store as it is.
DisconnectedKeepsItems ==
    /\ Call
    /\ kind = "component" /\ mountState = "mounted"
    /\ error' = "null"
    /\ initialLoadComplete' = FALSE
    /\ last' = [Did("disconnected", "", 0) EXCEPT !.before = items]
    /\ UNCHANGED <<config, partition, now, nextId, items, loading, sharedVars, mountState,
                   changeHandler, subs, tasks>>

\* handleDisconnected of a mounted useCollection: collection.clear()
Disconnected ==
    /\ Call
    /\ kind = "component" /\ mountState = "mounted"
    /\ items' = <<>>
    /\ error' = "null"
    /\ initialLoadComplete' = FALSE
    /\ tasks' = After(tasks, items')
    /\ last' = [Did("disconnected", "", 0) EXCEPT !.before = items]
    /\ UNCHANGED <<config, partition, now, nextId, loading, sharedVars, mountState,
                   changeHandler, subs>>

\* handleConnected of a mounted useCollection: collection.reload()
Connected ==
    /\ Call
    /\ kind = "component" /\ mountState = "mounted"
    /\ error' = "null"
    /\ tasks' = Append(tasks, [ReloadTask EXCEPT !.cause = "connected"])
    /\ last' = Did("connected", "", 1)
    /\ UNCHANGED <<config, partition, now, nextId, items, loading, sharedVars,
                   componentVars, subs>>

\* ---------------------------------------------------------------- find
\* A lookup that asks the adapter: module.get(id) is in flight.
FindFromAdapter(id) ==
    /\ Call
    /\ tasks' = Append(tasks, [ReloadTask EXCEPT !.op = "get", !.pc = "get", !.id = id])
    /\ last' = [Did("find", "", 0) EXCEPT !.id = id]
    /\ UNCHANGED <<config, partition, now, nextId, items, loading, error, sharedVars,
                   componentVars, subs>>

\* find(id): return items.find(item => item.id === id)
Find(id) ==
    /\ Call
    /\ last' = [Did("find", "", 0) EXCEPT !.id = id, !.result = find(items, id)]
    /\ UNCHANGED <<config, partition, now, nextId, items, loading, error, sharedVars,
                   componentVars, subs, tasks>>

\* ---------------------------------------------------------------- time
Tick ==
    /\ Call
    /\ now' = now + 1
    /\ last' = Quiet
    /\ UNCHANGED <<config, partition, nextId, items, loading, error, sharedVars,
                   componentVars, subs, tasks>>

\* ---------------------------------------------------------------- specification
Next ==
    \/ Reload
    \/ \E i \in 1..Len(tasks) : GetAllRead(i)
    \/ \E i \in 1..Len(tasks) : ReloadResolve(i)
    \/ \E i \in 1..Len(tasks) : ReloadFail(i)
    \/ \E c \in BOOLEAN : Add(c)
    \/ \E i \in 1..Len(tasks) : AddStore(i)
    \/ \E i \in 1..Len(tasks) : AddResolve(i)
    \/ \E i \in 1..Len(tasks) : AddFail(i)
    \/ \E id \in Callable, c \in BOOLEAN : Update(id, c)
    \/ \E i \in 1..Len(tasks) : UpdateGet(i)
    \/ \E i \in 1..Len(tasks) : UpdateStore(i)
    \/ \E i \in 1..Len(tasks) : UpdateFail(i)
    \/ \E id \in Callable : Remove(id)
    \/ \E i \in 1..Len(tasks) : RemoveResolve(i)
    \/ \E i \in 1..Len(tasks) : RemoveFail(i)
    \/ Clear
    \/ Mount
    \/ Cleanup
    \/ InitCollection
    \/ DisposeCollection
    \/ \E o \in Origins : Notify(o)
    \/ Disconnected
    \/ Connected
    \/ \E id \in Callable : Find(id)
    \/ Tick

Spec == Init /\ [][Next]_vars

\* The runs of add, update, remove and reload, their steps interleaved.
InitCrud == Init /\ kind = "shared" /\ filterKind = "none" /\ budget = MaxCalls

NextCrud ==
    \/ Reload
    \/ \E i \in 1..Len(tasks) : GetAllRead(i)
    \/ \E i \in 1..Len(tasks) : ReloadResolve(i)
    \/ \E i \in 1..Len(tasks) : ReloadFail(i)
    \/ \E id \in Callable, c \in BOOLEAN : Update(id, c)
    \/ \E i \in 1..Len(tasks) : UpdateGet(i)
    \/ \E i \in 1..Len(tasks) : UpdateStore(i)
    \/ \E i \in 1..Len(tasks) : UpdateFail(i)
    \/ \E id \in Callable : Remove(id)
    \/ \E i \in 1..Len(tasks) : RemoveResolve(i)
    \/ \E i \in 1..Len(tasks) : RemoveFail(i)
    \/ Tick

SpecCrud == InitCrud /\ [][NextCrud]_vars

\* The runs that exercise add, with reloads and removals around it, on either
\* collection.
InitAdd ==
    /\ Init
    /\ filterKind = "none"
    /\ autoLoad
    /\ budget = MaxCalls

NextAdd ==
    \/ Reload
    \/ \E i \in 1..Len(tasks) : GetAllRead(i)
    \/ \E i \in 1..Len(tasks) : ReloadResolve(i)
    \/ \E i \in 1..Len(tasks) : ReloadFail(i)
    \/ \E c \in BOOLEAN : Add(c)
    \/ \E i \in 1..Len(tasks) : AddStore(i)
    \/ \E i \in 1..Len(tasks) : AddResolve(i)
    \/ \E i \in 1..Len(tasks) : AddFail(i)
    \/ \E id \in Callable : Find(id)
    \/ Tick

SpecAdd == InitAdd /\ [][NextAdd]_vars

\* The runs that exercise filterFn: reloads of a partition whose records
\* updates complete and reopen.
InitFilter == Init /\ kind = "shared" /\ budget = MaxCalls

NextFilter ==
    \/ Reload
    \/ \E i \in 1..Len(tasks) : GetAllRead(i)
    \/ \E i \in 1..Len(tasks) : ReloadResolve(i)
    \/ \E i \in 1..Len(tasks) : ReloadFail(i)
    \/ \E id \in Callable, c \in BOOLEAN : Update(id, c)
    \/ \E i \in 1..Len(tasks) : UpdateGet(i)
    \/ \E i \in 1..Len(tasks) : UpdateStore(i)
    \/ \E i \in 1..Len(tasks) : UpdateFail(i)

SpecFilter == InitFilter /\ [][NextFilter]_vars

\* The runs in which no adapter call fails: reloads, updates and removes
\* that all resolve, their steps interleaved.
InitQuiet == Init /\ kind = "shared" /\ filterKind = "none" /\ budget = MaxCalls

NextQuiet ==
    \/ Reload
    \/ \E i \in 1..Len(tasks) : GetAllRead(i)
    \/ \E i \in 1..Len(tasks) : ReloadResolve(i)
    \/ \E id \in Callable, c \in BOOLEAN : Update(id, c)
    \/ \E i \in 1..Len(tasks) : UpdateGet(i)
    \/ \E i \in 1..Len(tasks) : UpdateStore(i)
    \/ \E id \in Callable : Remove(id)
    \/ \E i \in 1..Len(tasks) : RemoveResolve(i)
    \/ Tick

SpecQuiet == InitQuiet /\ [][NextQuiet]_vars

\* The runs in which updates of the seed records race with reloads: one call
\* more than in the other runs, so that a reload can bring in what an earlier
\* update stored while a later update is in flight.
InitRace ==
    /\ Init
    /\ kind = "shared"
    /\ sortKind = "createdAtDesc"
    /\ filterKind = "none"
    /\ partition = SeedPartition
    /\ budget = MaxCalls + 1

NextRace ==
    \/ Reload
    \/ \E i \in 1..Len(tasks) : GetAllRead(i)
    \/ \E i \in 1..Len(tasks) : ReloadResolve(i)
    \/ \E id \in Callable, c \in BOOLEAN : Update(id, c)
    \/ \E i \in 1..Len(tasks) : UpdateGet(i)
    \/ \E i \in 1..Len(tasks) : UpdateStore(i)
    \/ \E i \in 1..Len(tasks) : UpdateFail(i)

SpecRace == InitRace /\ [][NextRace]_vars

\* The runs of the lifecycle and of the change notifications.
InitLife == Init /\ sortKind = "createdAtDesc" /\ filterKind = "none" /\ budget = MaxEvents

NextLife ==
    \/ Reload
    \/ \E i \in 1..Len(tasks) : GetAllRead(i)
    \/ \E i \in 1..Len(tasks) : ReloadResolve(i)
    \/ \E i \in 1..Len(tasks) : ReloadFail(i)
    \/ Clear
    \/ Mount
    \/ Cleanup
    \/ InitCollection
    \/ DisposeCollection
    \/ \E o \in Origins : Notify(o)
    \/ Disconnected
    \/ Connected

SpecLife == InitLife /\ [][NextLife]_vars

\* ---------------------------------------------------------------- properties
Reconciling == {"local", "remote"}

\* The handler of the collection is registered and its gate, if it has one, is open.
Listening == subs > 0 /\ (kind = "component" => initialLoadComplete)

\* C1, as stated: whenever the adapter call of update(id, p) fails, items after
\* the call equals items immediately before the call, whatever ran in between.
C1_UpdateRollbackAlways == last.op = "updateFail" => items = last.before

\* C1, amended: when the adapter call of update(id, p) fails and no other
\* operation wrote items while the call was in flight, items after the call
\* equals items immediately before the call: same records, same field values,
\* same order.
C1_UpdateRollbackUndisturbed == (last.op = "updateFail" /\ last.clean) => items = last.before

\* C1: an undisturbed update of a record that is in items has failed.
C1_Witness ==
    /\ last.op = "updateFail" /\ last.clean
    /\ find(last.before, last.id) # <<>>
    /\ Len(items) > 1

\* C2: when the adapter call of remove(id) fails, items after the call equals
\* items immediately before the call, the removed record back at its index
\* (stated for the calls during which no other operation wrote items).
C2_RemoveRollbackRestores == (last.op = "removeFail" /\ last.clean) => items = last.before

\* C3: a Change Notification with origin window starts no reload (no getAll
\* call) and leaves items, loading and error as they were.
C3_WindowNotificationIgnored ==
    [][(last'.op = "notify" /\ last'.arg = "window")
         => (tasks' = tasks /\ items' = items /\ loading' = loading /\ error' = error
             /\ last'.reloads = 0)]_vars

\* C3: a window notification has reached a listening collection that holds items.
C3_Witness == last.op = "notify" /\ last.arg = "window" /\ Listening /\ items # <<>>

\* C4, as stated: every local or remote Change Notification delivered to a
\* collection triggers exactly one reload, whatever state the collection is in.
C4_EveryNotificationReloadsOnce ==
    (last.op = "notify" /\ last.arg \in Reconciling /\ subs > 0) => last.reloads = 1

\* C4, amended: a local or remote Change Notification triggers one reload per
\* registered handler whose gate is open: for a component collection exactly
\* one once its handler is registered and its initial load has completed with
\* no clear() since, none otherwise; for a Shared Collection one per init()
\* that subscribed.
C4_ReloadsPerListeningHandler ==
    (last.op = "notify" /\ last.arg \in Reconciling)
        => last.reloads = (IF kind = "component"
                           THEN (IF mountState # "created" /\ initialLoadComplete THEN 1 ELSE 0)
                           ELSE subs)

\* C4: a local or remote notification has made a listening collection reload once.
C4_Witness ==
    /\ last.op = "notify" /\ last.arg \in Reconciling /\ Listening
    /\ last.reloads = 1 /\ tasks # <<>>

\* C5: a Change Notification with origin conflict makes a listening collection
\* reload, as one with origin remote does.
C5_ConflictReloads ==
    (last.op = "notify" /\ last.arg = "conflict" /\ Listening) => last.reloads >= 1

\* C6: whenever an add, an update or a reload completes, items is sorted
\* according to sortFn, whatever fields sortFn reads (stated for the calls
\* that complete with no other call in flight).
C6_SortedAfterEachOperation ==
    [][(Len(tasks) = 1 /\ tasks' = <<>>
          /\ (AddResolve(1) \/ ReloadResolve(1) \/ UpdateStore(1) \/ UpdateGet(1)))
         => IsSorted(items')]_vars

\* C7: init() on a Shared Collection that is already initialised starts no
\* reload and registers no handler; the init() before it started one reload
\* and registered one handler.
C7_InitIdempotent ==
    [][(last'.op = "init")
         => IF hasInit
            THEN subs' = subs /\ tasks' = tasks /\ last'.reloads = 0
            ELSE subs' = subs + 1 /\ tasks' = Append(tasks, ReloadTask) /\ last'.reloads = 1]_vars

\* C7: init() was called twice in a row, and one handler is registered.
C7_Witness == last.op = "init" /\ last.arg = "noop" /\ subs = 1 /\ Len(tasks) = 1

\* C8: once dispose() has been called on a Shared Collection, and until the
\* next init(), a local or remote Change Notification triggers no reload.
C8_NoReloadAfterDispose ==
    (kind = "shared" /\ dispose = "null" /\ ~hasInit
        /\ last.op = "notify" /\ last.arg \in Reconciling) => last.reloads = 0

\* C9, as stated: after dispose() isInitialized() is false.
C9_DisposeResetsInitialized == last.op = "dispose" => ~initialized

\* C9, amended: dispose() resets the hasInit guard, so that a later init() is
\* not a no-op, and calls the root's disposer; isInitialized() keeps its value,
\* true once the first load had completed.
C9_DisposeResetsGuardOnly ==
    [][(last'.op = "dispose")
         => (~hasInit' /\ dispose' = "null" /\ initialized' = initialized)]_vars

\* C9: dispose() ran on a Shared Collection whose first load had completed.
C9_Witness == last.op = "dispose" /\ initialized /\ ~hasInit

\* C10: on a Shared Collection that has been initialised again after a
\* dispose(), each local or remote Change Notification triggers exactly one
\* reload, however many init/dispose cycles preceded it.
C10_OneReloadAfterReinit ==
    (kind = "shared" /\ hasInit /\ last.op = "notify" /\ last.arg \in Reconciling)
        => last.reloads = 1

\* ---------------------------------------------------------------- C11
\* C11: on the shared collection isInitialized() is false from creation until
\* a reload() has completed, and true from the completion of that reload on,
\* whether the reload succeeded or failed: it is false before init() and
\* while the first getAll is in flight.
C11_InitializedOnceReloadCompleted ==
    /\ (kind = "shared" => ~initialized)
    /\ [][kind = "shared"
            => initialized' = (initialized \/ last'.op \in {"reloadDone", "reloadFail"})]_vars

\* The first reload has failed, and the collection is initialized.
C11_Witness ==
    /\ kind = "shared" /\ last.op = "reloadFail" /\ initialized
    /\ error = "getAll" /\ tasks = <<>>

\* ---------------------------------------------------------------- C12
\* A step that starts a reload: the call itself, onMount, init() or a handler.
StartsReload == Len(tasks') > Len(tasks) /\ tasks'[Len(tasks')].op = "reload"

\* C12: a reload whose getAll fails never writes items, neither when it
\* starts nor when it fails; when it has failed error is the failure, loading
\* is false and the promise of reload() is resolved, not rejected.
C12_LoadFailureKeepsItems ==
    [][/\ (StartsReload \/ last'.op = "reloadFail") => items' = items
       /\ last'.op = "reloadFail" => (error' = "getAll" /\ ~loading' /\ ~last'.threw)]_vars

\* A reload has failed over a store that holds records.
C12_Witness == last.op = "reloadFail" /\ items # <<>> /\ error = "getAll" /\ ~loading

\* ---------------------------------------------------------------- C13
\* A step that starts an add.
StartsAdd == Len(tasks') > Len(tasks) /\ tasks'[Len(tasks')].op = "add"

\* C13: an add whose create fails never writes items, neither when it is
\* called nor when it fails; when it has failed error is the failure and the
\* promise of add() is rejected with it.
C13_FailedAddKeepsItems ==
    [][/\ (StartsAdd \/ last'.op = "addFail") => items' = items
       /\ last'.op = "addFail" => (error' = "create" /\ last'.threw)]_vars

\* An add has failed over a store that holds records.
C13_Witness ==
    /\ last.op = "addFail" /\ last.threw /\ error = "create"
    /\ items # <<>> /\ find(items, last.id) = <<>>

\* ---------------------------------------------------------------- C14
\* C14: add(data) starts with the adapter's create, which builds a record
\* with a fresh non-empty id and createdAt = Date.now(); items does not change
\* when the call starts nor when the record is stored.  When create has
\* resolved, that record is in items, items is one longer and ordered by the
\* comparator, the records it held keep their relative order, and a store
\* that was empty holds exactly the new record.
C14_SuccessfulAdd ==
    [][/\ StartsAdd => /\ items' = items
                       /\ tasks'[Len(tasks')].pc = "store"
                       /\ tasks'[Len(tasks')].data[1].id # 0
                       /\ tasks'[Len(tasks')].data[1].createdAt = now
                       /\ partition[tasks'[Len(tasks')].data[1].id] = <<>>
       /\ \A i \in 1..Len(tasks) :
             /\ AddStore(i) => items' = items
             /\ AddResolve(i) =>
                  /\ find(items', tasks[i].id) = tasks[i].data
                  /\ Len(items') = Len(items) + 1
                  /\ IsSorted(items')
                  /\ SpliceOut(items', FindIndex(items', tasks[i].id)) = items
                  /\ (items = <<>> => items' = tasks[i].data)]_vars

\* An add on an empty store has returned: items holds the record alone, as
\* the partition has it, created before the clock moved on.
C14_Witness ==
    /\ last.op = "addDone" /\ ~last.threw
    /\ Len(items) = 1 /\ items[1].id = last.id
    /\ partition[last.id] = items /\ items[1].createdAt < now

\* ---------------------------------------------------------------- C15
\* A step that starts an update or a remove on an id that items does not hold.
StartsOnAbsent ==
    /\ Len(tasks') > Len(tasks)
    /\ tasks'[Len(tasks')].op \in {"update", "remove"}
    /\ tasks'[Len(tasks')].original = <<>>

\* C15: an update or a remove on an id that neither items nor the partition
\* holds writes neither items nor error when it is called; when the adapter
\* has answered that there is no such record the call resolves, and items,
\* error and the partition are what they were.
C15_NotFoundIsNoError ==
    [][/\ StartsOnAbsent => (items' = items /\ error' = error)
       /\ \A i \in 1..Len(tasks) :
             (/\ tasks[i].original = <<>>
              /\ partition[tasks[i].id] = <<>>
              /\ UpdateGet(i) \/ RemoveResolve(i))
                => /\ items' = items /\ error' = error /\ partition' = partition
                   /\ last'.op \in {"updateDone", "removeDone"} /\ ~last'.threw
                   /\ (last'.clean => items' = last'.before)]_vars

\* An update on an id that no record has has resolved over a loaded store.
C15_Witness ==
    /\ last.op = "updateDone" /\ ~last.threw /\ last.clean
    /\ find(last.before, last.id) = <<>> /\ partition[last.id] = <<>>
    /\ items # <<>> /\ items = last.before /\ error = "null"

\* ---------------------------------------------------------------- C16
\* C16: after a failed mutation has set error, the next successful operation
\* of the same kind clears it: error is not the failure of an update when an
\* update has just succeeded, and likewise for remove and for add.
C16_SuccessClearsError ==
    /\ (last.op = "updateDone" /\ ~last.threw) => error # "update"
    /\ (last.op = "removeDone" /\ ~last.threw) => error # "remove"
    /\ (last.op = "addDone" /\ ~last.threw) => error # "create"

\* ---------------------------------------------------------------- C17
\* C17: when the adapter call of an update or of a remove has failed, error
\* is that failure and the promise of the operation is rejected with it,
\* whether or not items held the id when the operation was called.
C17_DualChannelFailure ==
    /\ last.op = "updateFail" => (error = "update" /\ last.threw)
    /\ last.op = "removeFail" => (error = "remove" /\ last.threw)

\* A remove on an id that items did not hold has failed: no snapshot, no
\* rollback, and both channels report.
C17_Witness ==
    /\ last.op = "removeFail" /\ find(last.before, last.id) = <<>>
    /\ last.before # <<>> /\ items = last.before
    /\ error = "remove" /\ last.threw

\* ---------------------------------------------------------------- C18
\* The step kept every record of items but the ones with this id.
OthersKept(id) ==
    /\ Len(items') = Len(items)
    /\ \A k \in 1..Len(items) : items[k].id # id => items'[k] = items[k]

\* C18: updates on different ids are independent, whatever their interleaving
\* and outcome: every step of an update call writes at most the record of its
\* own id.  The call puts the partial on that record, the rejection of the
\* adapter call puts the pre-call record back, and the steps of a call that
\* succeeds write nothing, so its record keeps the partial.
C18_UpdatesWriteOwnRecordOnly ==
    [][/\ \A id \in Callable, c \in BOOLEAN :
             Update(id, c) =>
                /\ OthersKept(id)
                /\ FindIndex(items, id) # 0 =>
                      items'[FindIndex(items, id)] =
                          [items[FindIndex(items, id)] EXCEPT !.completed = c, !.updatedAt = now]
       /\ \A i \in 1..Len(tasks) :
             /\ (tasks[i].op = "update" /\ UpdateFail(i)) =>
                   /\ OthersKept(tasks[i].id)
                   /\ (tasks[i].original # <<>> /\ FindIndex(items, tasks[i].id) # 0) =>
                         find(items', tasks[i].id) = tasks[i].original
             /\ (UpdateGet(i) \/ UpdateStore(i)) => items' = items]_vars

\* Two updates interleaved: the one on last.id has failed and its record is
\* back at its pre-call value, while the record of the other one, still in
\* flight, carries its partial.
C18_Witness ==
    /\ last.op = "updateFail" /\ ~last.clean
    /\ find(last.before, last.id) # <<>>
    /\ find(items, last.id) = find(last.before, last.id)
    /\ \E i \in 1..Len(tasks) :
          /\ tasks[i].op = "update" /\ tasks[i].id # last.id
          /\ tasks[i].original # <<>>
          /\ find(items, tasks[i].id) # tasks[i].original
          /\ find(items, tasks[i].id)[1].completed = tasks[i].partial

\* ---------------------------------------------------------------- C19
\* C19: clear() empties items and calls no adapter operation: after it items
\* is empty, no call is in flight that was not before, and the partition
\* holds what it held.
C19_ClearIsLocal ==
    [][last'.op = "clear"
          => (items' = <<>> /\ partition' = partition /\ Len(tasks') = Len(tasks))]_vars

\* clear() has emptied a store that held the records of the partition.
C19_Witness ==
    /\ last.op = "clear" /\ last.before # <<>> /\ items = <<>>
    /\ \A i \in 1..Len(last.before) : partition[last.before[i].id] = <<last.before[i]>>

\* ---------------------------------------------------------------- C20
\* C20: find(id) returns a record of items whose id is the argument, or
\* nothing when items holds none; it starts no adapter call and leaves items,
\* loading, error and the partition as they are.
C20_FindIsPureLookup ==
    [][last'.op = "find"
          => /\ IF \E k \in 1..Len(items) : items[k].id = last'.id
                THEN /\ Len(last'.result) = 1
                     /\ last'.result[1].id = last'.id
                     /\ \E k \in 1..Len(items) : items[k] = last'.result[1]
                ELSE last'.result = <<>>
             /\ tasks' = tasks
             /\ UNCHANGED <<items, loading, error, partition>>]_vars

\* find has returned a record of a store that holds more than one, while a
\* call is in flight.
C20_Witness ==
    /\ last.op = "find" /\ last.result # <<>>
    /\ last.result[1].id = last.id /\ last.result[1] # items[1]
    /\ tasks # <<>>

\* ---------------------------------------------------------------- C21
\* The record agrees in id and createdAt with the record created under this id.
AsCreated(r) ==
    /\ r.id \in 1..Len(SeedRecords)
    /\ r.createdAt = SeedRecords[r.id].createdAt

\* C21: through engine updates that succeed or are rolled back, adapter
\* updates and reloads, every record of the partition is stored under its own
\* id, and every record of the partition and of items has the id and the
\* createdAt it was created with.
C21_IdAndCreatedAtImmutable ==
    /\ \A i \in Present : partition[i][1].id = i /\ AsCreated(partition[i][1])
    /\ \A k \in 1..Len(items) : AsCreated(items[k])

\* An update has been stored and is in items: the record carries an
\* updatedAt, and the createdAt of its creation.
C21_Witness ==
    /\ last.op = "updateDone" /\ partition[last.id] # <<>>
    /\ partition[last.id][1].updatedAt # NoTime
    /\ find(items, last.id) # <<>>
    /\ find(items, last.id)[1].updatedAt # NoTime
    /\ find(items, last.id)[1].createdAt = SeedRecords[last.id].createdAt
    /\ find(items, last.id)[1].createdAt < now

\* ---------------------------------------------------------------- C22
\* No record that find returns with an updatedAt before the step comes with
\* a lower one, or with none, after the step.
UpdatedAtKept ==
    \A id \in Ids :
        (/\ find(items, id) # <<>> /\ find(items', id) # <<>>
         /\ find(items, id)[1].updatedAt # NoTime)
            => find(items', id)[1].updatedAt >= find(items, id)[1].updatedAt

\* C22: the updatedAt of a record in items never decreases once it is
\* present, through optimistic updates, rollbacks and reloads.
C22_UpdatedAtNeverDecreases == [][UpdatedAtKept]_vars

\* C22, amended: the updatedAt of a record in items is not decreased by any
\* step but the rollback of a failed update or remove and the completion of
\* a reload; the optimistic write of an update sets it to the current time,
\* which is not below the value it replaces.
C22_UpdatedAtKeptButByRollbackAndReload ==
    [][/\ last'.op \notin {"updateFail", "removeFail", "reloadDone"} => UpdatedAtKept
       /\ \A id \in Callable, c \in BOOLEAN :
             (Update(id, c) /\ FindIndex(items, id) # 0)
                => /\ find(items', id)[1].updatedAt = now
                   /\ find(items, id)[1].updatedAt <= now]_vars

\* A second update of a record is in flight: the record had an updatedAt,
\* and the optimistic write has not lowered it.
C22_Witness ==
    \E i \in 1..Len(tasks) :
        /\ tasks[i].op = "update" /\ tasks[i].clean /\ tasks[i].original # <<>>
        /\ tasks[i].original[1].updatedAt # NoTime
        /\ find(items, tasks[i].id)[1].updatedAt >= tasks[i].original[1].updatedAt

\* ---------------------------------------------------------------- C23
\* C23: the adapter's update reads the record of the id.  When the partition
\* has none, it returns absent: the partition is as it was and nothing is
\* left to store.  When it has one, the record to store is that record with
\* the partial merged in and updatedAt set to the current time, and the store
\* writes it under the id and leaves every other record of the partition
\* as it was.
C23_AdapterUpdate ==
    [][\A i \in 1..Len(tasks) :
          /\ (tasks[i].op = "update" /\ tasks[i].pc = "get" /\ UpdateGet(i)) =>
                /\ partition' = partition
                /\ IF partition[tasks[i].id] = <<>>
                   THEN /\ Len(tasks') = Len(tasks) - 1
                        /\ last'.op = "updateDone" /\ ~last'.threw
                   ELSE /\ tasks'[i].pc = "store"
                        /\ tasks'[i].data =
                              <<[partition[tasks[i].id][1] EXCEPT
                                    !.completed = tasks[i].partial, !.updatedAt = now]>>
          /\ UpdateStore(i) =>
                /\ partition'[tasks[i].id] = tasks[i].data
                /\ \A j \in Ids \ {tasks[i].id} : partition'[j] = partition[j]
                /\ last'.op = "updateDone" /\ ~last'.threw]_vars

\* The adapter has stored an update: the record carries the partial and an
\* updatedAt, and the other record of the partition is as it was created.
C23_Witness ==
    /\ last.op = "updateDone" /\ partition[last.id] # <<>>
    /\ partition[last.id][1].completed
    /\ partition[last.id][1].updatedAt = now
    /\ \E j \in Present \ {last.id} : partition[j] = <<SeedRecords[j]>>

HoldsThePartition ==
    /\ Len(items) = Cardinality(Present)
    /\ \A k \in 1..Len(items) : partition[items[k].id] = <<items[k]>>
    /\ \A k, j \in 1..Len(items) : items[k].id = items[j].id => k = j

\* C25: with no other writer, the order of items right after a successful
\* add is the order a reload() then produces, whatever the comparator and
\* also when the new record ties with others.
C25_AddOrderAgreesWithReload ==
    (last.op = "addDone" /\ tasks = <<>> /\ HoldsThePartition)
        => \A listing \in Listings : items = Processed(getAllAsArray(listing))

\* ---------------------------------------------------------------- C26
\* C26: a collection is created with items empty and loading true, and
\* loading stays true until a reload has completed.
C26_LoadingUntilFirstLoad ==
    /\ (items = <<>> /\ loading = TRUE)
    /\ [][(loading = TRUE /\ loading' = FALSE) => last'.op \in {"reloadDone", "reloadFail"}]_vars

\* C26, amended: a collection is created with items empty and loading true;
\* loading stays true until a reload has completed or, for a component
\* collection created with autoLoad false, until the component is mounted.
C26_LoadingUntilFirstLoadOrIdleMount ==
    /\ (items = <<>> /\ loading = TRUE)
    /\ [][(loading = TRUE /\ loading' = FALSE)
            => \/ last'.op \in {"reloadDone", "reloadFail"}
               \/ (last'.op = "mount" /\ kind = "component" /\ ~autoLoad)]_vars

\* The first load of a mounted component has completed and ended loading.
C26_Witness ==
    /\ kind = "component" /\ mountState = "mounted" /\ autoLoad
    /\ last.op = "reloadDone" /\ ~loading /\ items # <<>>

\* ---------------------------------------------------------------- C27
\* C27: in a mounted useCollection a 'disconnected' event empties items and
\* leaves the partition as it is, a 'connected' event starts a reload, and
\* when that reload has completed items is again the records of the
\* partition, filtered and sorted.
C27_ReconnectRestoresItems ==
    [][/\ last'.op = "disconnected" => (items' = <<>> /\ partition' = partition)
       /\ last'.op = "connected" => (StartsReload /\ partition' = partition)
       /\ (last'.op = "reloadDone" /\ last'.arg = "connected")
             => \E listing \in Listings : items' = Processed(getAllAsArray(listing))]_vars

\* The reload of a reconnect has completed over a store that the disconnect
\* had emptied: the records are back.
C27_Witness ==
    /\ last.op = "reloadDone" /\ last.arg = "connected"
    /\ items # <<>> /\ Len(items) = Cardinality(Present)
    /\ mountState = "mounted" /\ initialLoadComplete

\* ---------------------------------------------------------------- C28
\* C28: when a reload has succeeded, items holds exactly the records getAll
\* returned that satisfy filterFn, each once, in the order of sortFn; with
\* the default comparator and no filter, two records created at 2 and at 1
\* come out as [2, 1].
C28_ReloadResult ==
    [][\A i \in 1..Len(tasks) :
          ReloadResolve(i) =>
             /\ IsSorted(items')
             /\ \A k \in 1..Len(items') :
                   /\ filterFn(filterKind, items'[k])
                   /\ \E j \in 1..Len(tasks[i].data) : tasks[i].data[j] = items'[k]
                   /\ \A j \in 1..Len(items') : items'[j].id = items'[k].id => j = k
             /\ \A j \in 1..Len(tasks[i].data) :
                   filterFn(filterKind, tasks[i].data[j])
                      => \E k \in 1..Len(items') : items'[k] = tasks[i].data[j]
             /\ (/\ sortKind = "createdAtDesc" /\ filterKind = "none"
                 /\ Len(tasks[i].data) = 2
                 /\ tasks[i].data[1].createdAt # tasks[i].data[2].createdAt)
                   => /\ Len(items') = 2
                      /\ items'[1].createdAt > items'[2].createdAt]_vars

\* A reload under the filter has succeeded: the completed record of the
\* partition is left out, the other one is in items.
C28_Witness ==
    /\ last.op = "reloadDone" /\ filterKind = "active"
    /\ items # <<>> /\ Len(items) < Cardinality(Present)
    /\ \E i \in Present : partition[i][1].completed /\ find(items, i) = <<>>

\* ---------------------------------------------------------------- C29
\* C29: while the adapter call of an update or a remove on an id that items
\* held is in flight, items shows the change: the record carries the partial
\* and an updatedAt, respectively the record is not in items.
C29_OptimisticVisibleWhileInFlight ==
    \A i \in 1..Len(tasks) :
        tasks[i].original # <<>> =>
            /\ tasks[i].op = "update" =>
                  /\ find(items, tasks[i].id) # <<>>
                  /\ find(items, tasks[i].id)[1].completed = tasks[i].partial
                  /\ find(items, tasks[i].id)[1].updatedAt # NoTime
            /\ tasks[i].op = "remove" => find(items, tasks[i].id) = <<>>

\* C29, amended: while the adapter call of an update or a remove on an id
\* that items held is in flight and no other operation has written items
\* since the call, items is the list of before the call with the one record
\* changed: carrying the partial and an updatedAt of the call's time,
\* respectively removed.
C29_OptimisticVisibleWhileUndisturbed ==
    \A i \in 1..Len(tasks) :
        (tasks[i].original # <<>> /\ tasks[i].clean) =>
            /\ tasks[i].op = "update" =>
                  /\ Len(items) = Len(tasks[i].before)
                  /\ \A k \in 1..Len(items) :
                        items[k] = IF k = tasks[i].originalIndex
                                   THEN [tasks[i].before[k] EXCEPT
                                            !.completed = tasks[i].partial,
                                            !.updatedAt = items[k].updatedAt]
                                   ELSE tasks[i].before[k]
                  /\ items[tasks[i].originalIndex].updatedAt \in 1..now
            /\ tasks[i].op = "remove" =>
                  items = SpliceOut(tasks[i].before, tasks[i].originalIndex)

\* The adapter has read the record of an update and the store is in flight:
\* items already shows the partial, which the partition does not have.
C29_Witness ==
    \E i \in 1..Len(tasks) :
        /\ tasks[i].op = "update" /\ tasks[i].pc = "store" /\ tasks[i].clean
        /\ tasks[i].original # <<>>
        /\ find(items, tasks[i].id)[1].completed # tasks[i].original[1].completed
        /\ partition[tasks[i].id] = tasks[i].original

\* ---------------------------------------------------------------- C30
\* C30: with two updates of one id in flight, the second called after the
\* optimistic write of the first, the failure of the first puts the first
\* call's pre-call record back into items, over the second call's partial;
\* the steps of a successful update write nothing to items, so the partial
\* of the second call stays lost when its persistence succeeds.
C30_SameIdRollbackOverwrites ==
    [][\A i, j \in 1..Len(tasks) :
          /\ (/\ i < j
              /\ tasks[i].op = "update" /\ tasks[j].op = "update"
              /\ tasks[i].id = tasks[j].id
              /\ tasks[i].original # <<>> /\ FindIndex(items, tasks[i].id) # 0
              /\ UpdateFail(i))
                => /\ find(items', tasks[i].id) = tasks[i].original
                   /\ tasks[j].partial # tasks[i].original[1].completed
                         => find(items', tasks[i].id)[1].completed # tasks[j].partial
          /\ (tasks[j].op = "update" /\ (UpdateGet(j) \/ UpdateStore(j)))
                => items' = items]_vars

\* The first of two updates of one id has failed: items shows the record
\* of before the first call, not the partial of the second call, which is
\* still in flight and was called over the first call's optimistic write.
C30_Witness ==
    /\ last.op = "updateFail" /\ find(last.before, last.id) # <<>>
    /\ find(items, last.id) = find(last.before, last.id)
    /\ \E j \in 1..Len(tasks) :
          /\ tasks[j].op = "update" /\ tasks[j].id = last.id
          /\ tasks[j].original # <<>>
          /\ tasks[j].original # find(last.before, last.id)
          /\ find(items, last.id)[1].completed # tasks[j].partial

\* ---------------------------------------------------------------- C31
\* C31: in every reachable state, under any interleaving of update, remove,
\* their rollbacks and reloads, items holds at most one record per id, also
\* when a reload completes between an optimistic remove and its rollback.
C31_NoDuplicateIds ==
    \A k, j \in 1..Len(items) : items[k].id = items[j].id => k = j

\* ---------------------------------------------------------------- C32
\* C32: in a run in which no operation fails, whenever a load has completed
\* and no operation is in flight, items is the records of the partition,
\* filtered by filterFn and sorted by sortFn, also when the getAll of a
\* reload was read while an update or a remove was in flight whose
\* persistence completed afterwards.
C32_QuiescentConsistency ==
    (tasks = <<>> /\ initialized)
        => \E listing \in Listings : items = Processed(getAllAsArray(listing))

\* ---------------------------------------------------------------- C33
\* C33: when the reload that was started last resolves while reloads started
\* before it are in flight, items keeps the data that reload read: an
\* earlier reload that resolves after it does not change items.
C33_LastStartedReloadWins ==
    [][(/\ last.op = "reloadDone" /\ last.reloads > 0
        /\ \E i \in 1..Len(tasks) : ReloadResolve(i))
          => items' = items]_vars

\* ---------------------------------------------------------------- C34
\* C34: when a reload completes while update(id, p) is in flight and the
\* persistence call of the update fails next, items holds for id after the
\* rollback the record the reload installed, not the pre-call snapshot.
C34_RollbackKeepsReloadedRecord ==
    [][\A i \in 1..Len(tasks) :
          (/\ last.op = "reloadDone"
           /\ tasks[i].original # <<>> /\ find(items, tasks[i].id) # <<>>
           /\ UpdateFail(i))
             => find(items', tasks[i].id) = find(items, tasks[i].id)]_vars

\* ---------------------------------------------------------------- C35
\* C35: for a collection created with a filterFn, once the first load has
\* completed every record of items satisfies filterFn, also after an update
\* that makes a record stop satisfying it.
C35_ItemsSatisfyFilter ==
    initialized => \A k \in 1..Len(items) : filterFn(filterKind, items[k])

\* ---------------------------------------------------------------- C36
\* C36: in a component collection a local or remote Change Notification
\* starts no reload while no reload has settled since the collection was
\* created or since the last clear(), and starts exactly one, in a collection
\* whose handler is registered, once a reload has settled with no clear()
\* since; initialLoadComplete is that gate: set by the finally block of every
\* reload, reset by clear() and by nothing else.
C36_NotificationGate ==
    [][kind = "component" =>
          /\ (last'.op = "notify" /\ last'.arg \in Reconciling) =>
                /\ ~initialLoadComplete => (last'.reloads = 0 /\ tasks' = tasks)
                /\ (initialLoadComplete /\ mountState # "created")
                      => (last'.reloads = 1 /\ tasks' = Append(tasks, ReloadTask))
          /\ initialLoadComplete' =
                (IF last'.op \in {"reloadDone", "reloadFail"} THEN TRUE
                 ELSE IF last'.op \in {"clear", "disconnected"} THEN FALSE
                 ELSE initialLoadComplete)]_vars

\* A notification has reached a mounted collection whose first load had
\* completed and which was cleared afterwards: it started no reload.
C36_Witness ==
    /\ kind = "component" /\ mountState = "mounted" /\ autoLoad
    /\ last.op = "notify" /\ last.arg \in Reconciling /\ last.reloads = 0
    /\ ~loading /\ ~initialLoadComplete /\ tasks = <<>>

\* ---------------------------------------------------------------- C37
\* C37: once the cleanup of a component collection has run, a local or
\* remote Change Notification of its partition starts no reload of that
\* collection.
C37_NoReloadAfterCleanup ==
    (kind = "component" /\ mountState = "cleaned"
        /\ last.op = "notify" /\ last.arg \in Reconciling) => last.reloads = 0

\* ---------------------------------------------------------------- C38
\* C38: once loading has become false it never becomes true again, through
\* any later reload, clear(), notification, or dispose() and init() of a
\* Shared Collection.
C38_LoadingNeverReturns == [][loading = FALSE => loading' = FALSE]_vars

\* A Shared Collection whose first load has ended loading was disposed and
\* initialised again: its new reload is in flight and loading is still false.
C38_Witness ==
    /\ kind = "shared" /\ loading = FALSE /\ initialized
    /\ last.op = "init" /\ last.arg = "first" /\ dispose = "null"
    /\ \E i \in 1..Len(tasks) : tasks[i].op = "reload"

\* ---------------------------------------------------------------- C39
\* C39: a successful update(id, p) changes in items only the record with
\* that id, which takes the partial and an updatedAt, and leaves the length,
\* the order and every other record as they were; a successful remove(id)
\* deletes only that record and keeps the others in their order.  The write
\* happens in the call itself, the steps of the persistence write nothing to
\* items, and a call during which no other operation wrote items ends with
\* items differing from items before the call by that one record.
C39_FrameOfUpdateAndRemove ==
    [][/\ \A id \in Callable, c \in BOOLEAN :
             Update(id, c) =>
                /\ Len(items') = Len(items)
                /\ \A k \in 1..Len(items) :
                      IF k = FindIndex(items, id)
                      THEN items'[k] = Rec(id, items[k].createdAt, now, c)
                      ELSE items'[k] = items[k]
       /\ \A id \in Callable :
             Remove(id) =>
                IF FindIndex(items, id) = 0 THEN items' = items
                ELSE /\ Len(items') = Len(items) - 1
                     /\ \A k \in 1..Len(items') :
                           items'[k] = IF k < FindIndex(items, id) THEN items[k]
                                       ELSE items[k + 1]
       /\ \A i \in 1..Len(tasks) :
             (UpdateGet(i) \/ UpdateStore(i) \/ RemoveResolve(i)) => items' = items
       /\ (last'.op = "updateDone" /\ last'.clean) =>
             /\ Len(items') = Len(last'.before)
             /\ \A k \in 1..Len(items') :
                   IF k = FindIndex(last'.before, last'.id)
                   THEN /\ items'[k].id = last'.id
                        /\ items'[k].createdAt = last'.before[k].createdAt
                   ELSE items'[k] = last'.before[k]
       /\ (last'.op = "removeDone" /\ last'.clean) =>
             items' = OptimisticRemove(last'.before, last'.id)]_vars

\* An update of one of two records has succeeded with no other write to
\* items meanwhile: the record shows the partial, the list is otherwise as
\* before the call, and under the comparator that reads the updated field
\* it is left in the old order.
C39_Witness ==
    /\ last.op = "updateDone" /\ last.clean
    /\ Len(items) = 2 /\ items # last.before
    /\ find(items, last.id)[1].completed
    /\ sortKind = "completedAsc" /\ ~IsSorted(items)
====
